---- MODULE Spec2Model ----
(***************************************************************************)
(* Model of the enum_ffi attribute macro (src/src/lib.rs).                 *)
(*                                                                         *)
(* One run of enum_ffi_newtype is followed position by position: option    *)
(* parsing, representation extraction, the loop over the variants, the     *)
(* construction of the safe enum and the emission of the declaration       *)
(* block.  The emitted block is then given to the compiler (the const      *)
(* assertion, the const NonZero constructors and the enum declaration are  *)
(* decided there) and, once accepted, its two From conversions are run.    *)
(*                                                                         *)
(* The discriminant counter is a signed 64-bit integer in the source.  It  *)
(* is modelled as a signed I64Bits-bit integer so that its boundary is     *)
(* reachable; the representation named by #[repr(..)] is taken to be as    *)
(* wide as the counter (i64), so the counter's range is the binding one.   *)
(* The source enum is named Foo; rust_enum_name only renames the safe enum *)
(* and is left out.                                                        *)
(***************************************************************************)
EXTENDS Integers, Sequences, FiniteSets, TLC

\* Longest variant list of an input enum.
MaxVariants == 2
\* Width of the modelled i64.
I64Bits == 3

I64Max == 2^(I64Bits - 1) - 1
I64Min == -(2^(I64Bits - 1))
I64 == I64Min..I64Max

VARIABLES
    macro_args,             \* the parsed option list (input)
    item_enum,              \* the annotated enum (input)
    pc,                     \* position inside enum_ffi_newtype
    curr_discriminant,      \* lib.rs:84
    newtype_variants,       \* lib.rs:85, the associated constants
    newtype_variant_idents, \* lib.rs:86, the match arms
    rust_enum,              \* lib.rs:127, variant list of the safe enum
    catch_all_ident,        \* lib.rs:132
    result,                 \* what enum_ffi got back: none, ok, err, panic
    error,                  \* message of the syn::Error
    rustc,                  \* fate of the emitted block: none, accepted, rejected
    conv                    \* the last conversion run on the emitted types

vars == <<macro_args, item_enum, pc, curr_discriminant, newtype_variants,
          newtype_variant_idents, rust_enum, catch_all_ident, result, error,
          rustc, conv>>

-----------------------------------------------------------------------------
(* Messages *)

MsgArgs == "malformed macro arguments"
\* lib.rs:54 (the source quotes the word repr)
MsgNoRepr == "No repr attribute found."
MsgNotInt == "discriminant must be an integer"
MsgParse == "number too large to fit in target type"
MsgZero == "discriminant must not be zero for NonZero representation"
MsgFields == "FFI Enum variants may not contain fields"

-----------------------------------------------------------------------------
(* Inputs *)

original_ident == "Foo"
DefaultCatchAll == "UnknownVariantFoo"
NoCatchAll == ""

Idents == {"Variant", "Unknown", DefaultCatchAll}

\* Integer literals a discriminant may be written with: every i64 a literal
\* can denote and one that is too large.  A literal is never negative (-1 is
\* a unary expression, not a literal).
Literals == 0..(I64Max + 1)

Discriminants ==
    {[kind |-> "none", value |-> 0], [kind |-> "expr", value |-> 0]}
        \cup {[kind |-> "lit", value |-> n] : n \in Literals}

Variants == [ident : Idents, discriminant : Discriminants, fields : BOOLEAN]

VariantLists ==
    {vs \in UNION {[1..k -> Variants] : k \in 0..MaxVariants} :
        \A i, j \in DOMAIN vs : i # j => vs[i].ident # vs[j].ident}

ItemEnums == [has_repr : BOOLEAN, variants : VariantLists]

MacroArgs ==
    {[ok |-> FALSE, non_zero |-> FALSE, catch_all |-> NoCatchAll]}
        \cup [ok : {TRUE}, non_zero : BOOLEAN, catch_all : {NoCatchAll, "Unknown"}]

NoConv == [dir |-> "none", ident |-> "", value |-> 0]

-----------------------------------------------------------------------------
(* enum_ffi_newtype *)

evaluate_discriminant_expr(discriminant) ==
    IF discriminant.kind = "lit"
    THEN IF discriminant.value \in I64
         THEN [ok |-> TRUE, value |-> discriminant.value, err |-> ""]
         ELSE [ok |-> FALSE, value |-> 0, err |-> MsgParse]
    ELSE [ok |-> FALSE, value |-> 0, err |-> MsgNotInt]

\* lib.rs:99-101: the counter a variant is given.
VariantDiscriminant(variant, curr) ==
    IF variant.discriminant.kind # "none"
    THEN evaluate_discriminant_expr(variant.discriminant)
    ELSE [ok |-> TRUE, value |-> curr, err |-> ""]

VariantError_fields_first(variant, curr, non_zero) ==
    LET d == VariantDiscriminant(variant, curr)
    IN  IF ~d.ok THEN d.err
        ELSE IF variant.fields THEN MsgFields
        ELSE IF non_zero /\ d.value = 0 THEN MsgZero
        ELSE ""

VariantError_explicit_only(variant, curr, non_zero) ==
    LET d == VariantDiscriminant(variant, curr)
    IN  IF ~d.ok THEN d.err
        ELSE IF non_zero /\ variant.discriminant.kind = "lit" /\ d.value = 0 THEN MsgZero
        ELSE IF variant.fields THEN MsgFields
        ELSE ""

VariantError_no_zero_check(variant, curr, non_zero) ==
    LET d == VariantDiscriminant(variant, curr)
    IN  IF ~d.ok THEN d.err
        ELSE IF variant.fields THEN MsgFields
        ELSE ""

\* lib.rs:99-109: the error one loop iteration returns, "" when it has none.
VariantError(variant, curr, non_zero) ==
    LET d == VariantDiscriminant(variant, curr)
    IN  IF ~d.ok THEN d.err
        ELSE IF non_zero /\ d.value = 0 THEN MsgZero
        ELSE IF variant.fields THEN MsgFields
        ELSE ""

NextDiscriminant_stuck(curr) == curr

\* lib.rs:122, as a mathematical integer.
NextDiscriminant(curr) == curr + 1

\* The two's-complement result of an i64 addition that overflowed.
WrapI64(n) == ((n - I64Min) % 2^I64Bits) + I64Min

\* lib.rs:133
HasVariant(variants, name) == \E i \in DOMAIN variants : variants[i].ident = name

UnitVariant(name) ==
    [ident |-> name, discriminant |-> [kind |-> "none", value |-> 0], fields |-> FALSE]

\* lib.rs:132-153: the identifier of the catch-all.
CatchAllIdent(catch_all) ==
    IF catch_all # NoCatchAll THEN catch_all ELSE DefaultCatchAll

\* lib.rs:127-153: the variant list of the safe enum.
RustEnumVariants(variants, catch_all) ==
    IF catch_all # NoCatchAll
    THEN IF HasVariant(variants, catch_all)
         THEN variants
         ELSE Append(variants, UnitVariant(catch_all))
    ELSE Append(variants, UnitVariant(DefaultCatchAll))

Cleared ==
    /\ curr_discriminant' = 0
    /\ newtype_variants' = <<>>
    /\ newtype_variant_idents' = <<>>
    /\ rust_enum' = <<>>
    /\ catch_all_ident' = ""

Fail(msg) ==
    /\ pc' = "done"
    /\ result' = "err"
    /\ error' = msg
    /\ Cleared
    /\ UNCHANGED <<macro_args, item_enum, rustc, conv>>

ParseArgsError ==
    /\ pc = "parse_args"
    /\ ~macro_args.ok
    /\ Fail(MsgArgs)

ParseArgs ==
    /\ pc = "parse_args"
    /\ macro_args.ok
    /\ pc' = "get_repr"
    /\ UNCHANGED <<macro_args, item_enum, curr_discriminant, newtype_variants,
                   newtype_variant_idents, rust_enum, catch_all_ident, result,
                   error, rustc, conv>>

GetReprError ==
    /\ pc = "get_repr"
    /\ ~item_enum.has_repr
    /\ Fail(MsgNoRepr)

GetRepr ==
    /\ pc = "get_repr"
    /\ item_enum.has_repr
    /\ pc' = "walk"
    /\ UNCHANGED <<macro_args, item_enum, curr_discriminant, newtype_variants,
                   newtype_variant_idents, rust_enum, catch_all_ident, result,
                   error, rustc, conv>>

\* The variant the loop is at: the one after those already given a constant.
Walking == pc = "walk" /\ Len(newtype_variants) < Len(item_enum.variants)
Current == item_enum.variants[Len(newtype_variants) + 1]
CurrentError == VariantError(Current, curr_discriminant, macro_args.non_zero)

WalkDiscriminantError ==
    /\ Walking
    /\ CurrentError \in {MsgNotInt, MsgParse}
    /\ Fail(CurrentError)

WalkZeroError ==
    /\ Walking
    /\ CurrentError = MsgZero
    /\ Fail(MsgZero)

WalkFieldsError ==
    /\ Walking
    /\ CurrentError = MsgFields
    /\ Fail(MsgFields)

Emitted(value) ==
    /\ newtype_variants' =
           Append(newtype_variants, [ident |-> Current.ident, value |-> value])
    /\ newtype_variant_idents' = Append(newtype_variant_idents, Current.ident)

WalkVariant ==
    /\ Walking
    /\ CurrentError = ""
    /\ LET value == VariantDiscriminant(Current, curr_discriminant).value
       IN  /\ NextDiscriminant(value) \in I64
           /\ Emitted(value)
           /\ curr_discriminant' = NextDiscriminant(value)
    /\ UNCHANGED <<macro_args, item_enum, pc, rust_enum, catch_all_ident,
                   result, error, rustc, conv>>

\* lib.rs:122 on i64::MAX where the macro crate is built with overflow checks.
WalkOverflowPanic ==
    /\ Walking
    /\ CurrentError = ""
    /\ NextDiscriminant(VariantDiscriminant(Current, curr_discriminant).value) \notin I64
    /\ pc' = "done"
    /\ result' = "panic"
    /\ error' = ""
    /\ Cleared
    /\ UNCHANGED <<macro_args, item_enum, rustc, conv>>

\* lib.rs:122 on i64::MAX where the macro crate is built without them.
WalkOverflowWrap ==
    /\ Walking
    /\ CurrentError = ""
    /\ LET value == VariantDiscriminant(Current, curr_discriminant).value
       IN  /\ NextDiscriminant(value) \notin I64
           /\ Emitted(value)
           /\ curr_discriminant' = WrapI64(NextDiscriminant(value))
    /\ UNCHANGED <<macro_args, item_enum, pc, rust_enum, catch_all_ident,
                   result, error, rustc, conv>>

\* lib.rs:125-195: the safe enum is built and the block returned.
Emit ==
    /\ pc = "walk"
    /\ Len(newtype_variants) = Len(item_enum.variants)
    /\ rust_enum' = RustEnumVariants(item_enum.variants, macro_args.catch_all)
    /\ catch_all_ident' = CatchAllIdent(macro_args.catch_all)
    /\ pc' = "done"
    /\ result' = "ok"
    /\ UNCHANGED <<macro_args, item_enum, curr_discriminant, newtype_variants,
                   newtype_variant_idents, error, rustc, conv>>

-----------------------------------------------------------------------------
(* The emitted block *)

\* The discriminant the compiler gives the i-th variant of an enum declaration.
RECURSIVE EnumValue(_, _)
EnumValue(variants, i) ==
    IF variants[i].discriminant.kind = "lit" THEN variants[i].discriminant.value
    ELSE IF i = 1 THEN 0
    ELSE EnumValue(variants, i - 1) + 1

IndexOf(variants, name) ==
    CHOOSE i \in DOMAIN variants :
        /\ variants[i].ident = name
        /\ \A j \in DOMAIN variants : variants[j].ident = name => i <= j

\* `as u64` of an in-range i64.
AsU64(n) == n % 2^I64Bits

\* rust_enum_ident::catch_all_ident as an integer.
CatchAllValue == EnumValue(rust_enum, IndexOf(rust_enum, catch_all_ident))

\* lib.rs:169
CatchAllAssertion == AsU64(CatchAllValue) # 0

\* lib.rs:166-195 without line 169: whether the compiler accepts the
\* declarations.  The match needs an arm before its default arm; the safe
\* enum needs distinct variant names and distinct discriminants within the
\* representation; each const NonZero::new(..).unwrap() needs a non-zero
\* literal.
DeclarationsAccepted ==
    /\ newtype_variant_idents # <<>>
    /\ \A i, j \in DOMAIN rust_enum :
           i # j => /\ rust_enum[i].ident # rust_enum[j].ident
                    /\ EnumValue(rust_enum, i) # EnumValue(rust_enum, j)
    /\ \A i \in DOMAIN rust_enum : EnumValue(rust_enum, i) \in I64
    /\ macro_args.non_zero =>
           \A k \in DOMAIN newtype_variants : newtype_variants[k].value # 0

\* lib.rs:166-195: whether the compiler accepts the block.
RustcAccepts == DeclarationsAccepted /\ CatchAllAssertion

Compile ==
    /\ result = "ok"
    /\ rustc = "none"
    /\ rustc' = IF RustcAccepts THEN "accepted" ELSE "rejected"
    /\ UNCHANGED <<macro_args, item_enum, pc, curr_discriminant, newtype_variants,
                   newtype_variant_idents, rust_enum, catch_all_ident, result,
                   error, conv>>

\* original_ident::name
ConstValue(name) == newtype_variants[IndexOf(newtype_variants, name)].value

\* The values the newtype can hold.
WireValues == IF macro_args.non_zero THEN I64 \ {0} ELSE I64

RustEnumIdents == {rust_enum[i].ident : i \in DOMAIN rust_enum}

MatchArms_first_as_default(arms, value) ==
    IF \E k \in DOMAIN arms : ConstValue(arms[k]) = value
    THEN arms[CHOOSE k \in DOMAIN arms :
                  /\ ConstValue(arms[k]) = value
                  /\ \A j \in DOMAIN arms : ConstValue(arms[j]) = value => k <= j]
    ELSE arms[1]

\* lib.rs:189-192: the first arm whose guard holds, else the catch-all.
MatchArms(arms, value) ==
    IF \E k \in DOMAIN arms : ConstValue(arms[k]) = value
    THEN arms[CHOOSE k \in DOMAIN arms :
                  /\ ConstValue(arms[k]) = value
                  /\ \A j \in DOMAIN arms : ConstValue(arms[j]) = value => k <= j]
    ELSE catch_all_ident

\* lib.rs:187-194: impl From<original_ident> for rust_enum_ident
from_newtype(value) == MatchArms(newtype_variant_idents, value)

\* lib.rs:181-185: impl From<rust_enum_ident> for original_ident; the results
\* the build may give (new_unchecked on zero is undefined).
from_rust_enum(name) ==
    LET value == EnumValue(rust_enum, IndexOf(rust_enum, name))
    IN  IF macro_args.non_zero /\ value = 0 THEN I64 ELSE {value}

FromNewtype ==
    /\ rustc = "accepted"
    /\ \E value \in WireValues :
           conv' = [dir |-> "to_rust", ident |-> from_newtype(value), value |-> value]
    /\ UNCHANGED <<macro_args, item_enum, pc, curr_discriminant, newtype_variants,
                   newtype_variant_idents, rust_enum, catch_all_ident, result,
                   error, rustc>>

FromRustEnum ==
    /\ rustc = "accepted"
    /\ \E name \in RustEnumIdents : \E value \in from_rust_enum(name) :
           conv' = [dir |-> "to_ffi", ident |-> name, value |-> value]
    /\ UNCHANGED <<macro_args, item_enum, pc, curr_discriminant, newtype_variants,
                   newtype_variant_idents, rust_enum, catch_all_ident, result,
                   error, rustc>>

-----------------------------------------------------------------------------

Init ==
    /\ macro_args \in MacroArgs
    /\ item_enum \in ItemEnums
    /\ pc = "parse_args"
    /\ curr_discriminant = 0
    /\ newtype_variants = <<>>
    /\ newtype_variant_idents = <<>>
    /\ rust_enum = <<>>
    /\ catch_all_ident = ""
    /\ result = "none"
    /\ error = ""
    /\ rustc = "none"
    /\ conv = NoConv

Next ==
    \/ ParseArgsError
    \/ ParseArgs
    \/ GetReprError
    \/ GetRepr
    \/ WalkDiscriminantError
    \/ WalkZeroError
    \/ WalkFieldsError
    \/ WalkVariant
    \/ WalkOverflowPanic
    \/ WalkOverflowWrap
    \/ Emit
    \/ Compile
    \/ FromNewtype
    \/ FromRustEnum

Spec == Init /\ [][Next]_vars

-----------------------------------------------------------------------------
(* Properties *)

SourceVariants == item_enum.variants

SourceIdents == {SourceVariants[i].ident : i \in DOMAIN SourceVariants}

ConstValues == {newtype_variants[k].value : k \in DOMAIN newtype_variants}

\* C1: for every source variant V of an enum whose emitted block is accepted,
\* converting the constant original_ident::V to the safe enum gives the
\* variant V, and converting the safe enum's V to the newtype gives a value
\* equal to that constant; every conversion actually run agrees.
C1_RoundTrip ==
    rustc = "accepted" =>
        /\ \A k \in DOMAIN newtype_variants :
               /\ from_newtype(newtype_variants[k].value) = newtype_variants[k].ident
               /\ from_rust_enum(newtype_variants[k].ident) = {newtype_variants[k].value}
        /\ (conv.dir = "to_ffi" /\ conv.ident \in SourceIdents) =>
               /\ conv.value = ConstValue(conv.ident)
               /\ from_newtype(conv.value) = conv.ident

\* A two-variant enum with an explicit discriminant whose second variant went
\* to the newtype and comes back as itself.
C1_Witness ==
    /\ rustc = "accepted"
    /\ Len(SourceVariants) = 2
    /\ SourceVariants[1].discriminant.kind = "lit"
    /\ conv.dir = "to_ffi"
    /\ conv.ident = SourceVariants[2].ident
    /\ conv.value = newtype_variants[2].value
    /\ from_newtype(conv.value) = conv.ident

\* C2: the conversion from the newtype is total; a value equal to no
\* associated constant gives the catch-all variant (appended or reused), and
\* a value equal to the constant of V gives V and nothing else.
C2_CatchAllForUnknown ==
    rustc = "accepted" =>
        /\ \A value \in WireValues :
               /\ from_newtype(value) \in RustEnumIdents
               /\ value \notin ConstValues => from_newtype(value) = catch_all_ident
               /\ \A k \in DOMAIN newtype_variants :
                      newtype_variants[k].value = value =>
                          from_newtype(value) = newtype_variants[k].ident
        /\ (conv.dir = "to_rust" /\ conv.value \notin ConstValues) =>
               conv.ident = catch_all_ident

\* An unknown value was converted and fell to a catch-all that is a reused
\* source variant standing first in the enum.
C2_Witness ==
    /\ rustc = "accepted"
    /\ Len(SourceVariants) = 2
    /\ SourceVariants[1].ident = catch_all_ident
    /\ conv.dir = "to_rust"
    /\ conv.value \notin ConstValues
    /\ conv.ident = catch_all_ident

\* C3: when generation succeeds, one constant was emitted per source variant,
\* in declaration order; the constant of a variant with explicit discriminant
\* N has value N, and the constant of a variant without one has value one
\* plus the previous variant's value, or zero if it is the first.
C3_DiscriminantIdentity ==
    result = "ok" =>
        /\ Len(newtype_variants) = Len(SourceVariants)
        /\ \A k \in DOMAIN newtype_variants :
               /\ newtype_variants[k].ident = SourceVariants[k].ident
               /\ newtype_variants[k].value =
                      IF SourceVariants[k].discriminant.kind = "lit"
                      THEN SourceVariants[k].discriminant.value
                      ELSE IF k = 1 THEN 0
                      ELSE newtype_variants[k - 1].value + 1

\* C4: when generation succeeds the safe enum holds exactly one variant with
\* the catch-all's name: with catch_all naming a source variant the list is
\* the source list; with catch_all naming no source variant one unit variant
\* of that name is appended; without catch_all one unit variant named
\* UnknownVariantFoo is appended.  The source variants are kept as they are.
C4_ExactlyOneCatchAll ==
    result = "ok" =>
        /\ Cardinality({i \in DOMAIN rust_enum : rust_enum[i].ident = catch_all_ident}) = 1
        /\ SubSeq(rust_enum, 1, Len(SourceVariants)) = SourceVariants
        /\ IF macro_args.catch_all # NoCatchAll
           THEN /\ catch_all_ident = macro_args.catch_all
                /\ IF macro_args.catch_all \in SourceIdents
                   THEN rust_enum = SourceVariants
                   ELSE rust_enum = Append(SourceVariants, UnitVariant(macro_args.catch_all))
           ELSE /\ catch_all_ident = DefaultCatchAll
                /\ rust_enum = Append(SourceVariants, UnitVariant(DefaultCatchAll))

\* The discriminants of the source enum as the language computes them,
\* defined up to the first discriminant that is not an i64 literal.
ComputedUpTo(k) ==
    \A j \in 1..k :
        \/ SourceVariants[j].discriminant.kind = "none"
        \/ /\ SourceVariants[j].discriminant.kind = "lit"
           /\ SourceVariants[j].discriminant.value \in I64

ZeroVariants ==
    {k \in DOMAIN SourceVariants :
        ComputedUpTo(k) /\ EnumValue(SourceVariants, k) = 0}

FirstZeroVariant == CHOOSE k \in ZeroVariants : \A j \in ZeroVariants : k <= j

\* Nothing ends the run before the zero check of variant k.
ReachesZeroCheck(k) ==
    /\ item_enum.has_repr
    /\ \A j \in 1..(k - 1) :
           /\ ~SourceVariants[j].fields
           /\ EnumValue(SourceVariants, j) < I64Max

\* C5 as stated: under non-zero mode, a variant whose computed discriminant
\* is zero makes generation fail with the zero-discriminant message.
C5_ZeroAlwaysReported ==
    (pc = "done" /\ macro_args.ok /\ macro_args.non_zero /\ ZeroVariants # {}) =>
        (result = "err" /\ error = MsgZero)

\* C5 as amended: under non-zero mode generation succeeds only if no variant's
\* discriminant is zero; a zero discriminant keeps generation from succeeding,
\* and the message is the zero-discriminant one whenever nothing ends the run
\* before that variant's zero check.  With non-zero mode off the walker
\* never reports a zero discriminant and accepts it.
C5_NonZeroMode ==
    (pc = "done" /\ macro_args.ok) =>
        /\ (macro_args.non_zero /\ result = "ok") =>
               /\ 0 \notin ConstValues
               /\ ZeroVariants = {}
        /\ (macro_args.non_zero /\ ZeroVariants # {}) =>
               /\ result # "ok"
               /\ ReachesZeroCheck(FirstZeroVariant) =>
                      (result = "err" /\ error = MsgZero)
        /\ ~macro_args.non_zero =>
               /\ error # MsgZero
               /\ (/\ item_enum.has_repr
                   /\ ComputedUpTo(Len(SourceVariants))
                   /\ \A j \in DOMAIN SourceVariants :
                          /\ ~SourceVariants[j].fields
                          /\ EnumValue(SourceVariants, j) < I64Max)
                      => result = "ok"

\* Under non-zero mode the second variant's explicit zero was reported.
C5_Witness ==
    /\ pc = "done"
    /\ macro_args.non_zero
    /\ ZeroVariants = {2}
    /\ SourceVariants[2].discriminant.kind = "lit"
    /\ result = "err"
    /\ error = MsgZero

\* C6: with non-zero mode off, the emitted assertion on the catch-all's value
\* rejects no enum that the walker accepted and whose emitted declarations
\* the compiler accepts, whatever catch_all is.
C6_AssertionHarmless ==
    (result = "ok" /\ ~macro_args.non_zero /\ DeclarationsAccepted) =>
        CatchAllAssertion

\* C7: under non-zero mode, whenever generation succeeds and the emitted
\* catch-all assertion holds, every variant of the safe enum has a non-zero
\* value, and every conversion to the newtype that is run yields the
\* variant's own non-zero value.
C7_NonZeroInfallible ==
    /\ (result = "ok" /\ macro_args.non_zero /\ CatchAllAssertion) =>
           \A i \in DOMAIN rust_enum : AsU64(EnumValue(rust_enum, i)) # 0
    /\ (conv.dir = "to_ffi" /\ macro_args.non_zero) =>
           /\ conv.value # 0
           /\ conv.value = EnumValue(rust_enum, IndexOf(rust_enum, conv.ident))

\* Under non-zero mode an appended catch-all went to the newtype.
C7_Witness ==
    /\ rustc = "accepted"
    /\ macro_args.non_zero
    /\ catch_all_ident \notin SourceIdents
    /\ Len(SourceVariants) = 2
    /\ conv.dir = "to_ffi"
    /\ conv.ident = catch_all_ident
    /\ conv.value # 0

Outcome(r, e) == [result |-> r, error |-> e]

\* The first step to fail from variant k on, the counter being curr, in the
\* order: discriminant evaluation, zero check, field check, increment.
RECURSIVE FirstFailure(_, _, _)
FirstFailure(k, curr, overflow_checks) ==
    IF k > Len(SourceVariants) THEN Outcome("ok", "")
    ELSE LET variant == SourceVariants[k]
             value == IF variant.discriminant.kind = "lit"
                      THEN variant.discriminant.value ELSE curr
         IN  IF variant.discriminant.kind = "expr" THEN Outcome("err", MsgNotInt)
             ELSE IF value > I64Max THEN Outcome("err", MsgParse)
             ELSE IF macro_args.non_zero /\ value = 0 THEN Outcome("err", MsgZero)
             ELSE IF variant.fields THEN Outcome("err", MsgFields)
             ELSE IF value = I64Max
                  THEN IF overflow_checks THEN Outcome("panic", "")
                       ELSE FirstFailure(k + 1, I64Min, overflow_checks)
             ELSE FirstFailure(k + 1, value + 1, overflow_checks)

ExpectedOutcome(overflow_checks) ==
    IF ~macro_args.ok THEN Outcome("err", MsgArgs)
    ELSE IF ~item_enum.has_repr THEN Outcome("err", MsgNoRepr)
    ELSE FirstFailure(1, 0, overflow_checks)

C9_AppendedCatchAllDistinct ==
    (/\ result = "ok"
     /\ catch_all_ident \notin SourceIdents
     /\ \A i, j \in DOMAIN newtype_variants :
            i # j => newtype_variants[i].value # newtype_variants[j].value)
        => CatchAllValue \notin ConstValues

\* C10: the counter never leaves the i64 range: no run aborts on the
\* increment, and after each emitted constant the counter is that constant's
\* value plus one.
C10_CounterInRange ==
    /\ result # "panic"
    /\ newtype_variants # <<>> =>
           curr_discriminant = newtype_variants[Len(newtype_variants)].value + 1

====
